---------------------------- MODULE Spec2Model ----------------------------
(***************************************************************************)
(* ClientUser of authena_python_sdk (src/authena_python_sdk/client_user.py) *)
(* as a state machine: one caller invokes the public methods one at a time; *)
(* every http_endpoint(...) call appends a request to `sent`, every JSON    *)
(* body that comes back is appended to `recv`, and `outcome` is what the    *)
(* method returned or raised.                                               *)
(***************************************************************************)
EXTENDS Naturals, Sequences, FiniteSets, TLC

VARIABLES pc, op, args, sent, recv, outcome, store, created

vars == <<pc, op, args, sent, recv, outcome, store, created>>

(***************************************************************************)
(* Bounds.                                                                  *)
(***************************************************************************)
\* number of distinct non-empty string values an argument is drawn from
MaxStr == 2
\* longest `usernames` list handed to filter
MaxNames == 2
\* number of usernames the remote user store of SpecStore can hold
MaxUsers == 2

(***************************************************************************)
(* Python / JSON values.  Every value has the same record shape, so values  *)
(* of different Python types are comparable (and unequal).                  *)
(*   t: type tag, s: str payload, l: list of str, b: bool payload,          *)
(*   d: dict payload or object attributes, a set of <<key, value>> pairs.   *)
(***************************************************************************)
Val(t, s, l, b, d) == [t |-> t, s |-> s, l |-> l, b |-> b, d |-> d]

None == Val("None", "", <<>>, FALSE, {})

Str(s) == Val("str", s, <<>>, FALSE, {})

List(q) == Val("list", "", q, FALSE, {})

Bool(x) == Val("bool", "", <<>>, x, {})

Dict(pairs) == Val("dict", "", <<>>, FALSE, pairs)

Keys(v) == {p[1] : p \in v.d}

Item(v, k) == (CHOOSE p \in v.d : p[1] = k)[2]

\* v[k] of Python: TypeError when v is not subscriptable by a str key (None),
\* KeyError when the dict has no such key, the value otherwise.
Subscript(v, k) ==
    IF v.t # "dict" THEN [exc |-> "TypeError", val |-> None]
    ELSE IF k \notin Keys(v) THEN [exc |-> "KeyError", val |-> None]
    ELSE [exc |-> "", val |-> Item(v, k)]

\* `not v` of Python
Falsy(v) ==
    \/ v.t = "None"
    \/ v.t = "str" /\ v.s = ""
    \/ v.t = "list" /\ v.l = <<>>
    \/ v.t = "bool" /\ ~v.b
    \/ v.t = "dict" /\ v.d = {}

\* `v is True` of Python: identity with the singleton True
IsTrue(v) == v = Bool(TRUE)

(***************************************************************************)
(* Value objects built by the client (models/user.py, models/token.py):     *)
(* the keyword arguments are kept as the object's attributes.               *)
(***************************************************************************)
User(kwargs) == Val("User", "", <<>>, FALSE, kwargs)

Token(kwargs) == Val("Token", "", <<>>, FALSE, kwargs)

(***************************************************************************)
(* Requests: what http_endpoint(path, method, fields=..., body=...) is      *)
(* given.  `fields` is None, a dict, or a list of (name, value) tuples      *)
(* (kept in `pairs`); `body` is None or a dict.                             *)
(***************************************************************************)
Tuples(q) == [t |-> "tuples", d |-> {}, pairs |-> q]

FieldsDict(pairs) == [t |-> "dict", d |-> pairs, pairs |-> <<>>]

NoFields == [t |-> "None", d |-> {}, pairs |-> <<>>]

Request(path, method, fields, body) ==
    [path |-> path, method |-> method, fields |-> fields, body |-> body]

(***************************************************************************)
(* Outcomes of an invocation.                                               *)
(***************************************************************************)
Pending == [kind |-> "pending", exc |-> "", msg |-> "", value |-> None]

Returned(v) == [kind |-> "returned", exc |-> "", msg |-> "", value |-> v]

Raised(e, m) == [kind |-> "raised", exc |-> e, msg |-> m, value |-> None]

ConfirmFailedMsg == "Access token was not created"

NotConfirmedMsg == "User was not confirmed"

(***************************************************************************)
(* Argument domains.                                                        *)
(***************************************************************************)
StrOf(i) == <<"a", "b", "c", "d">>[i]

Strs == {StrOf(i) : i \in 1..MaxStr}

StrVals == {Str(s) : s \in Strs}

OptStr == {None, Str("")} \cup StrVals

OptList == {None, List(<<>>), List(<<"g1">>)}

OptBool == {None, Bool(TRUE), Bool(FALSE)}

SeqsUpTo(S, n) == UNION {[1..k -> S] : k \in 0..n}

(***************************************************************************)
(* State after construction: no invocation in progress.                     *)
(***************************************************************************)
Init ==
    /\ pc = "idle"
    /\ op = "none"
    /\ args = None
    /\ sent = <<>>
    /\ recv = <<>>
    /\ outcome = Pending
    /\ store = {}
    /\ created = {}

(***************************************************************************)
(* http_endpoint(...).call_to_json() / .call_to_response(): the request is  *)
(* issued and the caller blocks until the response (or a failure).          *)
(***************************************************************************)
Issue(o, a, req) ==
    /\ pc' = "awaiting"
    /\ op' = o
    /\ args' = a
    /\ sent' = <<req>>
    /\ recv' = <<>>
    /\ outcome' = Pending

Finish(resp, out) ==
    /\ pc' = "done"
    /\ recv' = Append(recv, resp)
    /\ outcome' = out
    /\ UNCHANGED <<op, args, sent>>

Awaiting(o) == pc = "awaiting" /\ op = o


\* call_to_json()/call_to_response() fails in the transport or with an HTTP
\* error: the exception leaves the method unchanged, nothing is retried.
TransportFailure ==
    /\ pc = "awaiting"
    /\ pc' = "done"
    /\ outcome' = Raised("TransportError", "")
    /\ UNCHANGED <<op, args, sent, recv>>

\* The caller takes the result; the client keeps nothing of the invocation.
Return ==
    /\ pc = "done"
    /\ pc' = "idle"
    /\ op' = "none"
    /\ args' = None
    /\ sent' = <<>>
    /\ recv' = <<>>
    /\ outcome' = Pending

(***************************************************************************)
(* get                                                                      *)
(***************************************************************************)
get_request(a) ==
    Request("/user/get", "GET", FieldsDict({<<"username", a.username>>}), None)


\* get_user with email and preferred_username read from each other's key
get_user_swapped(user_json) ==
    User({<<"group_ids", Item(user_json, "group_ids")>>,
          <<"username", Item(user_json, "username")>>,
          <<"preferred_username", Item(user_json, "email")>>,
          <<"email", Item(user_json, "preferred_username")>>,
          <<"first_name", Item(user_json, "first_name")>>,
          <<"last_name", Item(user_json, "last_name")>>,
          <<"permissions", Item(user_json, "permissions")>>,
          <<"is_active", Item(user_json, "is_active")>>})

get_user(user_json) ==
    User({<<"group_ids", Item(user_json, "group_ids")>>,
          <<"username", Item(user_json, "username")>>,
          <<"preferred_username", Item(user_json, "preferred_username")>>,
          <<"email", Item(user_json, "email")>>,
          <<"first_name", Item(user_json, "first_name")>>,
          <<"last_name", Item(user_json, "last_name")>>,
          <<"permissions", Item(user_json, "permissions")>>,
          <<"is_active", Item(user_json, "is_active")>>})

get(callers) ==
    /\ pc = "idle"
    /\ \E a \in callers : Issue("get", a, get_request(a))

get_return(answers) ==
    /\ Awaiting("get")
    /\ \E user_json \in answers :
         Finish(user_json, Returned(get_user(user_json)))

(***************************************************************************)
(* delete                                                                   *)
(***************************************************************************)
delete_request(a) ==
    Request("/user/delete", "DELETE", NoFields, Dict({<<"username", a.username>>}))

delete(callers) ==
    /\ pc = "idle"
    /\ \E a \in callers : Issue("delete", a, delete_request(a))

delete_return(answers) ==
    /\ Awaiting("delete")
    /\ \E resp \in answers :
         Finish(resp, Returned(None))

(***************************************************************************)
(* create                                                                   *)
(***************************************************************************)
create_request(a) ==
    Request("/user/create", "POST", NoFields,
            Dict({<<"username", a.username>>,
                  <<"group_ids", a.group_ids>>,
                  <<"email", a.email>>,
                  <<"preferred_username", a.preferred_username>>,
                  <<"first_name", a.first_name>>,
                  <<"last_name", a.last_name>>,
                  <<"permissions", a.permissions>>}))

create_user(a, user_json) ==
    User({<<"group_ids", a.group_ids>>,
          <<"username", Item(user_json, "username")>>,
          <<"preferred_username", a.preferred_username>>,
          <<"email", a.email>>,
          <<"first_name", a.first_name>>,
          <<"last_name", a.last_name>>,
          <<"tmp_password", Item(user_json, "tmp_password")>>,
          <<"permissions", a.permissions>>})

create(callers) ==
    /\ pc = "idle"
    /\ \E a \in callers : Issue("create", a, create_request(a))

create_return(answers) ==
    /\ Awaiting("create")
    /\ \E user_json \in answers :
         Finish(user_json, Returned(create_user(args, user_json)))

(***************************************************************************)
(* enable / disable                                                         *)
(***************************************************************************)
enable_request(a) ==
    Request("/user/enable", "POST", NoFields, Dict({<<"username", a.username>>}))

enable(callers) ==
    /\ pc = "idle"
    /\ \E a \in callers : Issue("enable", a, enable_request(a))

enable_return(answers) ==
    /\ Awaiting("enable")
    /\ \E resp \in answers :
         Finish(resp, Returned(None))


\* disable posting to the path of enable
disable_request_copied(a) == enable_request(a)

disable_request(a) ==
    Request("/user/disable", "POST", NoFields, Dict({<<"username", a.username>>}))

disable(callers) ==
    /\ pc = "idle"
    /\ \E a \in callers : Issue("disable", a, disable_request(a))

disable_return(answers) ==
    /\ Awaiting("disable")
    /\ \E resp \in answers :
         Finish(resp, Returned(None))

(***************************************************************************)
(* update                                                                   *)
(***************************************************************************)
OptionalKeys ==
    {"email", "preferred_username", "first_name", "last_name", "group_ids",
     "permissions"}

\* lines 110-118: every argument, username included, under its own key
update_all(a) ==
    Dict({<<"username", a.username>>,
          <<"email", a.email>>,
          <<"preferred_username", a.preferred_username>>,
          <<"first_name", a.first_name>>,
          <<"last_name", a.last_name>>,
          <<"group_ids", a.group_ids>>,
          <<"permissions", a.permissions>>})


\* update without the comprehension of line 119
update_body_unfiltered(a) == update_all(a)

\* update with `if value` in place of `if value is not None`
update_body_truthy(a) == Dict({p \in update_all(a).d : ~Falsy(p[2])})

\* line 119: {key: value for key, value in body.items() if value is not None}
update_body(a) == Dict({p \in update_all(a).d : p[2] # None})

update_request(a) == Request("/user/update", "PUT", NoFields, update_body(a))

update(callers) ==
    /\ pc = "idle"
    /\ \E a \in callers : Issue("update", a, update_request(a))

update_return(answers) ==
    /\ Awaiting("update")
    /\ \E resp \in answers :
         Finish(resp, Returned(None))

(***************************************************************************)
(* filter                                                                   *)
(***************************************************************************)
\* `usernames or []`
usernames_or_empty(usernames) == IF Falsy(usernames) THEN <<>> ELSE usernames.l

filter_fields(a) ==
    Tuples(<<<<"group_id", a.group_id>>, <<"is_active", a.is_active>>>>
           \o [i \in 1..Len(usernames_or_empty(a.usernames)) |->
                 <<"username", Str(usernames_or_empty(a.usernames)[i])>>])

filter_request(a) == Request("/user/filter", "GET", filter_fields(a), None)

filter_user(user_dict) ==
    User({<<"group_ids", Item(user_dict, "group_ids")>>,
          <<"username", Item(user_dict, "username")>>,
          <<"preferred_username", Item(user_dict, "preferred_username")>>,
          <<"email", Item(user_dict, "email")>>,
          <<"first_name", Item(user_dict, "first_name")>>,
          <<"last_name", Item(user_dict, "last_name")>>})

filter(callers) ==
    /\ pc = "idle"
    /\ \E a \in callers : Issue("filter", a, filter_request(a))

filter_return(answers) ==
    /\ Awaiting("filter")
    /\ \E response_body_json \in answers :
         Finish(response_body_json,
                Returned(Dict({<<p[1], filter_user(p[2])>> :
                                  p \in response_body_json.d})))

(***************************************************************************)
(* confirm                                                                  *)
(***************************************************************************)
confirm_request(a) ==
    Request("/token/create", "POST", NoFields,
            Dict({<<"username", a.username>>, <<"password", a.tmp_password>>}))


\* `is not True` in place of `is True`
is_challenge_negated(token_json) == ~IsTrue(Item(token_json, "is_challenge"))

\* `is not None` in place of `is True`
is_challenge_not_none(token_json) == Item(token_json, "is_challenge") # None

\* line 166: token_json['is_challenge'] is True
is_challenge(token_json) == IsTrue(Item(token_json, "is_challenge"))

\* lines 171-172: the two reads of token_json['challenge'], in order; the
\* first exception (KeyError, or TypeError on a null challenge) leaves confirm
challenge_error(token_json) ==
    LET c == Subscript(token_json, "challenge")
        n == IF c.exc = "" THEN Subscript(c.val, "challenge_name") ELSE c
        x == IF n.exc = "" THEN Subscript(c.val, "session") ELSE n
    IN  x.exc


\* the challenge answered with the temporary password
challenge_request_tmp(a, token_json) ==
    Request("/token/challenge", "POST", NoFields,
            Dict({<<"challenge_name",
                    Subscript(Subscript(token_json, "challenge").val,
                              "challenge_name").val>>,
                  <<"challenge_session",
                    Subscript(Subscript(token_json, "challenge").val,
                              "session").val>>,
                  <<"challenge_response",
                    Dict({<<"USERNAME", a.username>>,
                          <<"NEW_PASSWORD", a.tmp_password>>})>>}))

challenge_request(a, token_json) ==
    Request("/token/challenge", "POST", NoFields,
            Dict({<<"challenge_name",
                    Subscript(Subscript(token_json, "challenge").val,
                              "challenge_name").val>>,
                  <<"challenge_session",
                    Subscript(Subscript(token_json, "challenge").val,
                              "session").val>>,
                  <<"challenge_response",
                    Dict({<<"USERNAME", a.username>>,
                          <<"NEW_PASSWORD", a.new_password>>})>>}))

\* lines 180-183: token_json['authentication']['access_token'], with KeyError
\* and ValueError turned into None; any other exception leaves the method.
access_token_of(token_json) ==
    LET auth == Subscript(token_json, "authentication")
        tok == IF auth.exc = "" THEN Subscript(auth.val, "access_token") ELSE auth
    IN  IF tok.exc \in {"KeyError", "ValueError"}
        THEN [exc |-> "", val |-> None]
        ELSE tok


\* confirm with `access_token is None` in place of `not access_token`
confirm_outcome_none_only(token_json) ==
    LET tok == access_token_of(token_json)
    IN  IF tok.exc # "" THEN Raised(tok.exc, "")
        ELSE IF tok.val = None THEN Raised("ValueError", ConfirmFailedMsg)
        ELSE Returned(None)

\* lines 180-190: what confirm does with the response it ends on
confirm_outcome(token_json) ==
    LET tok == access_token_of(token_json)
    IN  IF tok.exc # "" THEN Raised(tok.exc, "")
        ELSE IF Falsy(tok.val) THEN Raised("ValueError", ConfirmFailedMsg)
        ELSE Returned(None)

confirm(callers) ==
    /\ pc = "idle"
    /\ \E a \in callers : Issue("confirm", a, confirm_request(a))

\* the response to POST /token/create arrives
confirm_created(answers) ==
    /\ Awaiting("confirm")
    /\ Len(recv) = 0
    /\ \E token_json \in answers :
         IF is_challenge(token_json)
         THEN IF challenge_error(token_json) = ""
              THEN /\ pc' = "awaiting"
                   /\ sent' = Append(sent, challenge_request(args, token_json))
                   /\ recv' = Append(recv, token_json)
                   /\ UNCHANGED <<op, args, outcome>>
              ELSE Finish(token_json, Raised(challenge_error(token_json), ""))
         ELSE Finish(token_json, confirm_outcome(token_json))

\* the response to POST /token/challenge arrives
confirm_challenged(answers) ==
    /\ Awaiting("confirm")
    /\ Len(recv) = 1
    /\ \E token_json \in answers :
         Finish(token_json, confirm_outcome(token_json))

(***************************************************************************)
(* validate_token                                                           *)
(***************************************************************************)
validate_token_request(a) ==
    Request("/token/validate", "POST", NoFields,
            Dict({<<"access_token", a.access_token>>}))

validate_token(callers) ==
    /\ pc = "idle"
    /\ \E a \in callers : Issue("validate_token", a, validate_token_request(a))

validate_token_return(answers) ==
    /\ Awaiting("validate_token")
    /\ \E response \in answers :
         Finish(response, Returned(Item(response, "valid")))

(***************************************************************************)
(* create_token                                                             *)
(***************************************************************************)
create_token_request(a) ==
    Request("/token/create", "POST", NoFields,
            Dict({<<"username", a.username>>, <<"password", a.password>>}))

\* Token(**token_json['authentication']): KeyError without the entry,
\* TypeError when the entry is not a mapping
token_from_authentication(token_json) ==
    LET auth == Subscript(token_json, "authentication")
    IN  IF auth.exc # "" THEN Raised(auth.exc, "")
        ELSE IF auth.val.t # "dict" THEN Raised("TypeError", "")
        ELSE Returned(Token(auth.val.d))


\* create_token without the is_challenge check
create_token_outcome_unchecked(token_json) == token_from_authentication(token_json)

\* lines 213-220
create_token_outcome(token_json) ==
    IF IsTrue(Item(token_json, "is_challenge"))
    THEN Raised("ValueError", NotConfirmedMsg)
    ELSE token_from_authentication(token_json)

create_token(callers) ==
    /\ pc = "idle"
    /\ \E a \in callers : Issue("create_token", a, create_token_request(a))

create_token_return(answers) ==
    /\ Awaiting("create_token")
    /\ \E token_json \in answers :
         Finish(token_json, create_token_outcome(token_json))

(***************************************************************************)
(* exchange_auth_code                                                       *)
(***************************************************************************)
exchange_auth_code_request(a) ==
    Request("/token/create", "POST", NoFields,
            Dict({<<"authorization_code", a.authorization_code>>,
                  <<"redirect_uri", a.redirect_uri>>}))

exchange_auth_code(callers) ==
    /\ pc = "idle"
    /\ \E a \in callers : Issue("exchange_auth_code", a, exchange_auth_code_request(a))

exchange_auth_code_return(answers) ==
    /\ Awaiting("exchange_auth_code")
    /\ \E token_json \in answers :
         Finish(token_json, token_from_authentication(token_json))

(***************************************************************************)
(* refresh_token                                                            *)
(***************************************************************************)
refresh_token_request(a) ==
    Request("/token/refresh", "POST", NoFields,
            Dict({<<"refresh_token", a.refresh_token>>}))

refresh_token(callers) ==
    /\ pc = "idle"
    /\ \E a \in callers : Issue("refresh_token", a, refresh_token_request(a))

refresh_token_return(answers) ==
    /\ Awaiting("refresh_token")
    /\ \E token_json \in answers :
         Finish(token_json, Returned(Token(token_json.d)))

(***************************************************************************)
(* permissions                                                              *)
(***************************************************************************)
permissions_request(a) ==
    Request("/permission/get", "GET", FieldsDict({<<"username", a.username>>}), None)

permissions(callers) ==
    /\ pc = "idle"
    /\ \E a \in callers : Issue("permissions", a, permissions_request(a))

permissions_return(answers) ==
    /\ Awaiting("permissions")
    /\ \E response \in answers :
         Finish(response, Returned(Item(response, "permissions")))

(***************************************************************************)
(* Arguments the caller passes.                                             *)
(***************************************************************************)
NameArgs == [username : StrVals]

CreateArgs ==
    [email : StrVals, preferred_username : StrVals, first_name : StrVals,
     last_name : StrVals, username : {None} \cup StrVals, group_ids : OptList,
     permissions : OptList]

UpdateArgs ==
    [username : StrVals, email : OptStr, preferred_username : OptStr,
     first_name : OptStr, last_name : OptStr, group_ids : OptList,
     permissions : OptList]

FilterArgs ==
    [group_id : {None} \cup StrVals,
     usernames : {None} \cup {List(q) : q \in SeqsUpTo(Strs, MaxNames)},
     is_active : OptBool]

ConfirmArgs == [username : StrVals, tmp_password : StrVals, new_password : StrVals]

ValidateArgs == [access_token : StrVals]

CreateTokenArgs == [username : StrVals, password : StrVals]

ExchangeArgs == [authorization_code : StrVals, redirect_uri : {None} \cup StrVals]

RefreshArgs == [refresh_token : StrVals]

(***************************************************************************)
(* JSON bodies the remote service answers with.  An answer to               *)
(* /token/create or /token/challenge always carries is_challenge, and a     *)
(* challenge whenever is_challenge is true (the client reads both           *)
(* unguarded); its authentication entry may be absent, null, or a mapping   *)
(* with or without an access_token.                                         *)
(***************************************************************************)
HttpOk == Str("200 OK")

UserJson(username, preferred_username, email, first_name, last_name, is_active) ==
    Dict({<<"group_ids", List(<<"g1">>)>>,
          <<"username", username>>,
          <<"preferred_username", preferred_username>>,
          <<"email", email>>,
          <<"first_name", first_name>>,
          <<"last_name", last_name>>,
          <<"permissions", List(<<>>)>>,
          <<"is_active", is_active>>})

UserJsons ==
    {UserJson(u, p, e, f, l, b) :
        u \in StrVals, p \in StrVals, e \in StrVals, f \in StrVals,
        l \in StrVals, b \in {Bool(TRUE), Bool(FALSE)}}

CreateJsons ==
    {Dict({<<"username", u>>, <<"tmp_password", Str("tmp")>>}) : u \in StrVals}

FilterJsons ==
    {Dict({<<n, UserJson(Str(n), Str(n), Str(n), Str(n), Str(n), Bool(TRUE))>> :
            n \in S}) : S \in SUBSET Strs}

Challenges ==
    {Dict({<<"challenge_name", Str(c)>>, <<"session", Str(x)>>}) :
        c \in {"NEW_PASSWORD_REQUIRED", "SMS_MFA"}, x \in {"sess1", "sess2"}}

Authentications ==
    {None, Dict({}), Dict({<<"access_token", None>>}),
     Dict({<<"access_token", Str("")>>}),
     Dict({<<"access_token", Str("tok")>>, <<"refresh_token", Str("ref")>>})}

ChallengeFlags ==
    {f \in OptBool \X ({None} \cup Challenges) : IsTrue(f[1]) => f[2] # None}

TokenJsons ==
    {Dict({<<"is_challenge", f[1]>>, <<"challenge", f[2]>>} \cup a) :
        f \in ChallengeFlags,
        a \in {{}} \cup {{<<"authentication", x>>} : x \in Authentications}}

ValidJsons == {Dict({<<"valid", b>>}) : b \in {Bool(TRUE), Bool(FALSE)}}

RefreshJsons ==
    {Dict({<<"access_token", Str("tok")>>, <<"refresh_token", Str("ref")>>})}

PermissionJsons == {Dict({<<"permissions", List(q)>>}) : q \in {<<>>, <<"p1">>}}

(***************************************************************************)
(* Spec: the client against an arbitrary remote service; the client itself  *)
(* never touches the remote store.                                          *)
(***************************************************************************)
Wire(A) == A /\ UNCHANGED <<store, created>>

Next ==
    \/ Wire(get(NameArgs))
    \/ Wire(get_return(UserJsons))
    \/ Wire(delete(NameArgs))
    \/ Wire(delete_return({HttpOk}))
    \/ Wire(create(CreateArgs))
    \/ Wire(create_return(CreateJsons))
    \/ Wire(enable(NameArgs))
    \/ Wire(enable_return({HttpOk}))
    \/ Wire(disable(NameArgs))
    \/ Wire(disable_return({HttpOk}))
    \/ Wire(update(UpdateArgs))
    \/ Wire(update_return({HttpOk}))
    \/ Wire(filter(FilterArgs))
    \/ Wire(filter_return(FilterJsons))
    \/ Wire(confirm(ConfirmArgs))
    \/ Wire(confirm_created(TokenJsons))
    \/ Wire(confirm_challenged(TokenJsons))
    \/ Wire(validate_token(ValidateArgs))
    \/ Wire(validate_token_return(ValidJsons))
    \/ Wire(create_token(CreateTokenArgs))
    \/ Wire(create_token_return(TokenJsons))
    \/ Wire(exchange_auth_code(ExchangeArgs))
    \/ Wire(exchange_auth_code_return(TokenJsons))
    \/ Wire(refresh_token(RefreshArgs))
    \/ Wire(refresh_token_return(RefreshJsons))
    \/ Wire(permissions(NameArgs))
    \/ Wire(permissions_return(PermissionJsons))
    \/ Wire(TransportFailure)
    \/ Wire(Return)

Spec == Init /\ [][Next]_vars

(***************************************************************************)
(* SpecStore: the user operations against a remote service that stores what *)
(* /user/create receives and serves it back on /user/get.  `store` is the   *)
(* service's user table, a set of <<username, user record>>; `created`      *)
(* remembers the Users that successful create calls returned and whose      *)
(* user was not deleted since (this caller never updates a user).           *)
(***************************************************************************)
UserOf(i) == <<"u1", "u2", "u3", "u4">>[i]

Usernames == {UserOf(i) : i \in 1..MaxUsers}

Profiles == {Str("a"), Str("b")}

StoreNameArgs == [username : {Str(n) : n \in Usernames}]

StoreCreateArgs ==
    [email : Profiles, preferred_username : Profiles, first_name : Profiles,
     last_name : Profiles, username : {None} \cup {Str(n) : n \in Usernames},
     group_ids : {List(<<"g1">>)}, permissions : {None}]

StoredNames == {p[1] : p \in store}

Stored(n) == (CHOOSE p \in store : p[1] = n)[2]

\* the record the service keeps for a /user/create body, under username n
remote_record(body, n) ==
    Dict({p \in body.d : p[1] # "username"}
         \cup {<<"username", Str(n)>>, <<"is_active", Bool(TRUE)>>})

Forget(username) == {u \in created : Item(u, "username") # username}

\* /user/create: the requested username, or one the service picks, if free
ServeCreate ==
    /\ Awaiting("create")
    /\ \E n \in Usernames \ StoredNames :
         /\ Item(sent[1].body, "username") \in {None, Str(n)}
         /\ create_return({Dict({<<"username", Str(n)>>,
                                 <<"tmp_password", Str("tmp")>>})})
         /\ store' = store \cup {<<n, remote_record(sent[1].body, n)>>}
         /\ created' = Forget(Str(n)) \cup {outcome'.value}

\* /user/get: the stored record of a known user
ServeGet ==
    /\ Awaiting("get")
    /\ Item(sent[1].fields, "username").s \in StoredNames
    /\ get_return({Stored(Item(sent[1].fields, "username").s)})
    /\ UNCHANGED <<store, created>>

\* /user/delete of a known user
ServeDelete ==
    /\ Awaiting("delete")
    /\ Item(sent[1].body, "username").s \in StoredNames
    /\ delete_return({HttpOk})
    /\ store' = {p \in store : p[1] # Item(sent[1].body, "username").s}
    /\ created' = Forget(Item(sent[1].body, "username"))

CallCreate == create(StoreCreateArgs) /\ UNCHANGED <<store, created>>

CallGet == get(StoreNameArgs) /\ UNCHANGED <<store, created>>

CallDelete == delete(StoreNameArgs) /\ UNCHANGED <<store, created>>

NextStore ==
    \/ CallCreate
    \/ ServeCreate
    \/ CallGet
    \/ ServeGet
    \/ CallDelete
    \/ ServeDelete
    \/ Wire(TransportFailure)
    \/ Wire(Return)

SpecStore == Init /\ [][NextStore]_vars

(***************************************************************************)
(* Properties.                                                              *)
(***************************************************************************)
Running(o) == op = o /\ pc # "idle"

Done(o) == op = o /\ pc = "done"

\* every answer the invocation asked for has arrived
Answered == Len(recv) = Len(sent)

AllOptionalNull == \A k \in OptionalKeys : args[k] = None

\* the response has no authentication entry, no access_token inside it, or an
\* empty or null access_token
NoAccessToken(r) ==
    \/ "authentication" \notin Keys(r)
    \/ /\ "authentication" \in Keys(r)
       /\ Item(r, "authentication").t = "dict"
       /\ \/ "access_token" \notin Keys(Item(r, "authentication"))
          \/ Item(Item(r, "authentication"), "access_token") \in {None, Str("")}

\* the response carries a non-empty access token
HasAccessToken(r) ==
    /\ "authentication" \in Keys(r)
    /\ Item(r, "authentication").t = "dict"
    /\ "access_token" \in Keys(Item(r, "authentication"))
    /\ Item(Item(r, "authentication"), "access_token").t = "str"
    /\ Item(Item(r, "authentication"), "access_token").s # ""

ConfirmFailed == Raised("ValueError", ConfirmFailedMsg)

\* the str, list and bool values a request carries, nested dicts included
Leaves(v) ==
    {p[2] : p \in {q \in v.d : q[2].t # "dict"}}
    \cup UNION {{p[2] : p \in q[2].d} : q \in {q \in v.d : q[2].t = "dict"}}

C2_NonNullSubset ==
    Running("update") =>
        /\ \A k \in OptionalKeys :
             /\ k \in Keys(sent[1].body) <=> args[k] # None
             /\ k \in Keys(sent[1].body) => Item(sent[1].body, k) = args[k]
        /\ \A p \in sent[1].body.d : p[2] # None

C2_Witness ==
    /\ Done("update")
    /\ args.email = Str("")
    /\ args.group_ids = List(<<>>)
    /\ args.first_name = None
    /\ args.permissions = None
    /\ args.last_name \in StrVals

\* C3 as stated: the query field list of GET /user/filter has one username
\* entry per element of usernames, in list order, and an entry for group_id
\* or is_active only when that filter is not null.
C3_OnlySetFilters ==
    Running("filter") =>
        LET q == sent[1].fields.pairs
            names == IF args.usernames = None THEN <<>> ELSE args.usernames.l
            scalars == {k \in {"group_id", "is_active"} : args[k] # None}
        IN  /\ SelectSeq(q, LAMBDA e : e[1] = "username")
                 = [i \in 1..Len(names) |-> <<"username", Str(names[i])>>]
            /\ \A k \in {"group_id", "is_active"} :
                 (\E i \in 1..Len(q) : q[i][1] = k) <=> k \in scalars
            /\ \A i \in 1..Len(q) : q[i][1] \in scalars => q[i][2] = args[q[i][1]]
            /\ Len(q) = Len(names) + Cardinality(scalars)

\* C4: once confirm's POST /token/create is answered with is_challenge =
\* false, the run has issued that one request and no other, none of them to
\* /token/challenge, and has returned or raised.
C4_NoChallengeCall ==
    (Running("confirm") /\ Len(recv) >= 1
        /\ Item(recv[1], "is_challenge") = Bool(FALSE)) =>
        /\ Len(sent) = 1
        /\ sent[1].path = "/token/create"
        /\ \A i \in 1..Len(sent) : sent[i].path # "/token/challenge"
        /\ pc = "done"
        /\ outcome.kind \in {"returned", "raised"}

C4_Witness ==
    /\ Done("confirm")
    /\ Len(recv) = 1
    /\ Item(recv[1], "is_challenge") = Bool(FALSE)
    /\ Item(recv[1], "challenge") \in Challenges
    /\ outcome.kind = "returned"

C6_UnconfirmedRaises ==
    /\ Running("create_token") =>
         /\ Len(sent) = 1
         /\ sent[1].path = "/token/create"
    /\ (Running("create_token") /\ Len(recv) >= 1
          /\ Item(recv[1], "is_challenge") = Bool(TRUE)) =>
         /\ pc = "done"
         /\ outcome = Raised("ValueError", NotConfirmedMsg)
         /\ outcome.value.t # "Token"

C6_Witness ==
    /\ Done("create_token")
    /\ Item(recv[1], "is_challenge") = Bool(TRUE)
    /\ HasAccessToken(recv[1])
    /\ outcome.kind = "raised"

\* C7: against the storing service, a get of a username that a successful
\* create returned, with no delete or update of that user in between,
\* returns a User with the same username, email, preferred_username,
\* first_name and last_name as the User create returned.
C7_RoundTrip ==
    (Done("get") /\ outcome.kind = "returned") =>
        \A u \in created :
            Item(u, "username") = args.username =>
                \A k \in {"username", "email", "preferred_username",
                          "first_name", "last_name"} :
                    Item(outcome.value, k) = Item(u, k)

C7_Witness ==
    /\ Done("get")
    /\ outcome.kind = "returned"
    /\ Cardinality(created) = MaxUsers
    /\ \E u \in created :
         /\ Item(u, "username") = args.username
         /\ Item(u, "email") # Item(u, "preferred_username")
         /\ Item(u, "first_name") # Item(u, "last_name")
         /\ Item(u, "tmp_password") = Str("tmp")

\* C8 as stated: no invocation of any operation, confirm included, ever has
\* more than one request, and a finished invocation has exactly one.
C8_OneRequestEach ==
    pc # "idle" => Len(sent) = 1

\* C8 amended: every operation other than confirm issues exactly one
\* request; confirm issues one POST /token/create and at most one further
\* request, a POST /token/challenge, only after a /token/create response
\* with is_challenge = true; a failed request is the invocation's last.
C8_OneRequestButConfirm ==
    /\ (pc # "idle" /\ op # "confirm") => Len(sent) = 1
    /\ Running("confirm") =>
         /\ Len(sent) \in {1, 2}
         /\ sent[1].path = "/token/create"
         /\ Len(sent) = 2 =>
              /\ Len(recv) >= 1
              /\ Item(recv[1], "is_challenge") = Bool(TRUE)
              /\ sent[2].path = "/token/challenge"
    /\ pc # "idle" => Len(recv) <= Len(sent)
    /\ outcome.exc = "TransportError" => pc = "done" /\ Len(sent) = Len(recv) + 1
    /\ pc = "awaiting" => Len(sent) = Len(recv) + 1

C8_Witness ==
    /\ Done("confirm")
    /\ Len(sent) = 2
    /\ Len(recv) = 1
    /\ outcome.exc = "TransportError"

\* the (method, path) table of the wire contract, per operation
WireContract ==
    [get |-> <<"GET", "/user/get">>,
     delete |-> <<"DELETE", "/user/delete">>,
     create |-> <<"POST", "/user/create">>,
     enable |-> <<"POST", "/user/enable">>,
     disable |-> <<"POST", "/user/disable">>,
     update |-> <<"PUT", "/user/update">>,
     filter |-> <<"GET", "/user/filter">>,
     create_token |-> <<"POST", "/token/create">>,
     exchange_auth_code |-> <<"POST", "/token/create">>,
     validate_token |-> <<"POST", "/token/validate">>,
     refresh_token |-> <<"POST", "/token/refresh">>,
     permissions |-> <<"GET", "/permission/get">>]

\* C9: each operation's request has the method and path of the wire
\* contract; a GET carries the arguments as query fields and no body, every
\* other method carries them as a body and no query fields.
C9_WireContract ==
    (pc # "idle" /\ op \in DOMAIN WireContract) =>
        LET r == sent[1]
            payload == IF r.method = "GET" THEN r.fields ELSE r.body
        IN  /\ r.method = WireContract[op][1]
            /\ r.path = WireContract[op][2]
            /\ r.method = "GET" => r.fields.t # "None" /\ r.body = None
            /\ r.method # "GET" => r.fields = NoFields /\ r.body.t = "dict"
            /\ op \notin {"update", "filter"} =>
                 /\ Keys(payload) = DOMAIN args
                 /\ \A k \in DOMAIN args : Item(payload, k) = args[k]
            /\ op = "update" => Keys(payload) \subseteq DOMAIN args
            /\ op = "filter" =>
                 /\ payload.t = "tuples"
                 /\ \A i \in 1..Len(payload.pairs) :
                      payload.pairs[i][1] \in {"group_id", "is_active", "username"}

C9_Witness ==
    /\ Done("disable")
    /\ sent[1].path = "/user/disable"
    /\ outcome.kind = "returned"

\* C10: once confirm's POST /token/create is answered with is_challenge =
\* true, the run has issued exactly one further request, POST
\* /token/challenge, carrying that response's challenge_name and session and
\* {USERNAME: username, NEW_PASSWORD: new_password}; no second request
\* exists before the first answer; tmp_password travels only in the first
\* request and new_password only in the second; and the outcome follows the
\* challenge response alone.
C10_ChallengeAnswered ==
    /\ (Running("confirm") /\ Len(recv) = 0) => Len(sent) = 1
    /\ (Running("confirm") /\ Len(recv) >= 1
          /\ Item(recv[1], "is_challenge") = Bool(TRUE)) =>
         /\ Len(sent) = 2
         /\ sent[1] = Request("/token/create", "POST", NoFields,
                              Dict({<<"username", args.username>>,
                                    <<"password", args.tmp_password>>}))
         /\ sent[2] = Request("/token/challenge", "POST", NoFields,
                Dict({<<"challenge_name",
                        Item(Item(recv[1], "challenge"), "challenge_name")>>,
                      <<"challenge_session",
                        Item(Item(recv[1], "challenge"), "session")>>,
                      <<"challenge_response",
                        Dict({<<"USERNAME", args.username>>,
                              <<"NEW_PASSWORD", args.new_password>>})>>}))
         /\ args.new_password \notin {args.username, args.tmp_password} =>
              args.new_password \notin Leaves(sent[1].body)
         /\ args.tmp_password \notin {args.username, args.new_password} =>
              args.tmp_password \notin Leaves(sent[2].body)
         /\ (pc = "done" /\ Len(recv) = 2) =>
              /\ outcome.kind = "returned" <=> HasAccessToken(recv[2])
              /\ NoAccessToken(recv[2]) => outcome = ConfirmFailed

C10_Witness ==
    /\ Done("confirm")
    /\ Len(recv) = 2
    /\ Item(recv[1], "is_challenge") = Bool(TRUE)
    /\ "authentication" \notin Keys(recv[1])
    /\ HasAccessToken(recv[2])
    /\ args.tmp_password # args.new_password
    /\ outcome.kind = "returned"

=============================================================================
